---- MODULE Spec2Model ----
(* Guest-session image gallery backend (src/backend/app.py).                *)
(* The two Supabase tables are sets of rows; every request handler is a     *)
(* sequence of store statements, each statement one atomic step, so that    *)
(* concurrent requests interleave between statements.                       *)
EXTENDS Integers, Sequences, FiniteSets, TLC

\* ---------------------------------------------------------------- bounds
MaxUsers == 2      \* rows ever inserted into "users"
MaxImages == 2     \* rows ever inserted into "images"
MaxClock == 1      \* last instant of the wall clock
MaxOrder == 1      \* largest display_order a client sends
DataUsers == 1     \* rows ever inserted into "users" under SpecData
MaxLen == 2        \* longest reorder list a client sends
MaxUploads == 1    \* files ever sent to the blob store
MaxAppend == 3     \* rows ever inserted into "images" under SpecAppend

\* ---------------------------------------------------------------- inputs
Reqs == {"r1", "r2"}                 \* requests that can be in flight together
NoHeader == "<none>"                 \* request.headers.get(...) found no header
Titles == {"Untitled", "T"}
Descriptions == {"", "D"}
Urls == {"", "u"}
Orders == 0..MaxOrder
Fields == {"title", "description", "image_url", "display_order"}

\* variant: every guest gets the same token
uuid4Fixed(n) == "g1"

\* str(uuid.uuid4()): the n-th token drawn, unlike every other
uuid4(n) == "g" \o ToString(n)
GuestIds == {uuid4(n) : n \in 1..(MaxUsers + 1)}
Headers == {NoHeader, ""} \cup GuestIds
ImageIds == 1..(MaxImages + 1)

\* A JSON object body: has = the keys present; an absent key holds a filler.
Body(has, t, d, u, o, uid) ==
    [has |-> has, title |-> t, description |-> d, image_url |-> u, display_order |-> o,
     user_id |-> uid]
EmptyBody == Body({}, "", "", "", 0, 0)
Bodies(keys) ==
    {b \in [has : SUBSET keys, title : Titles \cup {""}, description : Descriptions,
            image_url : Urls, display_order : Orders \cup {0},
            user_id : 0..MaxUsers] :
        /\ ("user_id" \in b.has) <=> (b.user_id # 0)
        /\ ("title" \notin b.has) => b.title = ""
        /\ ("title" \in b.has) => b.title \in Titles
        /\ ("description" \notin b.has) => b.description = ""
        /\ ("image_url" \notin b.has) => b.image_url = ""
        /\ ("display_order" \notin b.has) => b.display_order = 0
        /\ ("display_order" \in b.has) => b.display_order \in Orders}
CreateBodies == Bodies({"title", "description", "image_url"})
UpdateBodies == Bodies(Fields \cup {"user_id"})
OrderItems == [id : ImageIds, order : Orders]
OrderLists == UNION {[1..n -> OrderItems] : n \in 0..MaxLen}

\* request.files: no "file" part, a part with an empty filename, a named file
NoFile == [part |-> FALSE, stem |-> "", ext |-> ""]
Files == {NoFile, [part |-> TRUE, stem |-> "", ext |-> ""],
          [part |-> TRUE, stem |-> "a", ext |-> ".png"]}

\* the image_url key of a body, the part create_image validates first
UrlPart(b) ==
    [b EXCEPT !.has = b.has \cap {"image_url"}, !.title = "", !.description = "",
              !.display_order = 0, !.user_id = 0]

\* What the clients of one specification send: the X-Guest-ID headers, the image
\* ids in the path, the JSON bodies of POST and PUT, the reorder lists; users and
\* images cap the rows the store ever takes.
EnvSeq ==
    [users |-> MaxUsers, images |-> MaxImages, headers |-> Headers, ids |-> ImageIds,
     create |-> {b \in CreateBodies : b.has \subseteq {"image_url"}},
     update |-> {b \in UpdateBodies : b.has \subseteq {"display_order"}},
     reorder |-> {l \in OrderLists : Len(l) <= 1}]
EnvCreate == [EnvSeq EXCEPT !.create = CreateBodies]
EnvReorder == [EnvSeq EXCEPT !.reorder = OrderLists]
EnvOwner == [EnvSeq EXCEPT !.update = {b \in UpdateBodies : b.has \subseteq {"user_id"}}]
EnvAppend == [EnvSeq EXCEPT !.images = MaxAppend, !.headers = GuestIds, !.ids = 1..MaxAppend]
EnvData ==
    [users |-> DataUsers, images |-> MaxImages, headers |-> {uuid4(1)},
     ids |-> 1..MaxImages,
     create |-> {b \in CreateBodies : b.image_url # ""},
     update |-> {b \in UpdateBodies : b.user_id \in {0, MaxUsers}},
     reorder |-> {l \in OrderLists : Len(l) <= 1 /\ \A k \in 1..Len(l) : l[k].order = 0}]
EnvConc ==
    [users |-> MaxUsers, images |-> MaxImages, headers |-> GuestIds, ids |-> ImageIds,
     create |-> {b \in CreateBodies : b.has = {"image_url"} /\ b.image_url # ""},
     update |-> {b \in UpdateBodies : b.has = {"display_order"}},
     reorder |-> {l \in OrderLists : Len(l) = 1}]

\* data.get(key, default)
Get(data, key, default) == IF key \in data.has THEN data[key] ELSE default

VARIABLES users, images, userSeq, imageSeq, uuidSeq, clock, req
vars == <<users, images, userSeq, imageSeq, uuidSeq, clock, req>>

IdleReq ==
    [op |-> "none", pc |-> "idle", guest_id |-> NoHeader, image_id |-> 0,
     data |-> EmptyBody, order_list |-> <<>>, done |-> 0, user_id |-> 0,
     next_order |-> 0, status |-> 0, body |-> <<>>, file |-> NoFile]

Init ==
    /\ users = {}
    /\ images = {}
    /\ userSeq = 1
    /\ imageSeq = 1
    /\ uuidSeq = 1
    /\ clock = 0
    /\ req = [r \in Reqs |-> IdleReq]

\* ---------------------------------------------------------------- helpers
\* datetime.utcnow(); a store statement runs within one instant of the clock
utcnow == clock

\* return jsonify(body), status
Reply(r, status, body) ==
    req' = [req EXCEPT ![r].pc = "done", ![r].status = status, ![r].body = body]

\* a request arrives on an idle worker: the route, the header, the path
Arrive(op, guest_id, image_id) ==
    [IdleReq EXCEPT !.op = op, !.guest_id = guest_id, !.image_id = image_id]

\* variant: the lookup without its guest_id filter
UsersByGuestAny(g) == users

\* the rows of SELECT ... FROM users WHERE guest_id = g
UsersByGuest(g) == {u \in users : u.guest_id = g}

\* variant: the rows in insertion order, as without the order clause
OrderByInsertion(rows) ==
    {s \in [1..Cardinality(rows) -> rows] :
        \A i, j \in 1..Cardinality(rows) : i < j => s[i].id < s[j].id}

\* the row sequences ORDER BY display_order can return for a set of rows
OrderBy(rows) ==
    {s \in [1..Cardinality(rows) -> rows] :
        /\ \A i, j \in 1..Cardinality(rows) : i # j => s[i] # s[j]
        /\ \A i \in 1..(Cardinality(rows) - 1) :
              s[i].display_order <= s[i + 1].display_order}

\* the rows of SELECT * FROM images WHERE user_id = uid
ImagesOf(uid) == {im \in images : im.user_id = uid}

\* variant: the ownership check without its user_id filter
OwnedImageAnyUser(id, uid) == {im \in images : im.id = id}

\* the rows of SELECT * FROM images WHERE id = id AND user_id = uid
OwnedImage(id, uid) == {im \in images : im.id = id /\ im.user_id = uid}

\* variant: only a missing header is refused, an empty one goes through
require_guest_idAbsentOnly(r, op, guest_id, image_id) ==
    /\ req[r].pc = "idle"
    /\ IF guest_id = NoHeader
       THEN req' = [req EXCEPT ![r] =
                [Arrive(op, guest_id, image_id) EXCEPT !.pc = "done", !.status = 401]]
       ELSE req' = [req EXCEPT ![r] =
                [Arrive(op, guest_id, image_id) EXCEPT !.pc = "resolve"]]

\* @require_guest_id: 401 when the header is missing or empty
require_guest_id(r, op, guest_id, image_id) ==
    /\ req[r].pc = "idle"
    /\ IF guest_id = NoHeader \/ guest_id = ""
       THEN req' = [req EXCEPT ![r] =
                [Arrive(op, guest_id, image_id) EXCEPT !.pc = "done", !.status = 401]]
       ELSE req' = [req EXCEPT ![r] =
                [Arrive(op, guest_id, image_id) EXCEPT !.pc = "resolve"]]

\* user = SELECT id FROM users WHERE guest_id = ...; 404 when there is no row
ResolveUser(r, op, pc) ==
    /\ req[r].op = op
    /\ req[r].pc = "resolve"
    /\ IF UsersByGuest(req[r].guest_id) = {}
       THEN Reply(r, 404, <<>>)
       ELSE \E u \in UsersByGuest(req[r].guest_id) :
               req' = [req EXCEPT ![r].user_id = u.id, ![r].pc = pc]
    /\ UNCHANGED <<users, images, userSeq, imageSeq, uuidSeq, clock>>

\* ---------------------------------------------------------------- auth routes
\* POST /api/auth/guest
create_guest(r, env) ==
    /\ req[r].pc = "idle"
    /\ userSeq <= env.users
    /\ users' = users \cup {[id |-> userSeq, guest_id |-> uuid4(uuidSeq),
                              created_at |-> utcnow, last_accessed |-> utcnow]}
    /\ req' = [req EXCEPT ![r] =
            [IdleReq EXCEPT !.op = "create_guest", !.pc = "done", !.status = 201,
                            !.body = <<[guest_id |-> uuid4(uuidSeq), user_id |-> userSeq]>>]]
    /\ userSeq' = userSeq + 1
    /\ uuidSeq' = uuidSeq + 1
    /\ UNCHANGED <<images, imageSeq, clock>>

\* POST /api/auth/verify
verify_guest(r, env) ==
    /\ \E g \in env.headers :
          require_guest_id(r, "verify_guest", g, 0)
    /\ UNCHANGED <<users, images, userSeq, imageSeq, uuidSeq, clock>>

verify_guest_select(r) ==
    /\ req[r].op = "verify_guest"
    /\ req[r].pc = "resolve"
    /\ IF UsersByGuest(req[r].guest_id) = {}
       THEN Reply(r, 404, <<>>)
       ELSE \E u \in UsersByGuest(req[r].guest_id) :
               req' = [req EXCEPT ![r].user_id = u.id, ![r].pc = "touch",
                                  ![r].body = <<[user_id |-> u.id, guest_id |-> u.guest_id,
                                                 created_at |-> u.created_at]>>]
    /\ UNCHANGED <<users, images, userSeq, imageSeq, uuidSeq, clock>>

\* variant: the update of last_accessed without its id filter
verify_guest_updateAll(r) ==
    /\ req[r].op = "verify_guest"
    /\ req[r].pc = "touch"
    /\ users' = {[u EXCEPT !.last_accessed = utcnow] : u \in users}
    /\ Reply(r, 200, req[r].body)
    /\ UNCHANGED <<images, userSeq, imageSeq, uuidSeq, clock>>

\* UPDATE users SET last_accessed = now WHERE id = user.id; the answer
verify_guest_update(r) ==
    /\ req[r].op = "verify_guest"
    /\ req[r].pc = "touch"
    /\ users' = {IF u.id = req[r].user_id THEN [u EXCEPT !.last_accessed = utcnow] ELSE u :
                    u \in users}
    /\ Reply(r, 200, req[r].body)
    /\ UNCHANGED <<images, userSeq, imageSeq, uuidSeq, clock>>

\* ---------------------------------------------------------------- image routes
\* GET /api/images
get_images(r, env) ==
    /\ \E g \in env.headers :
          require_guest_id(r, "get_images", g, 0)
    /\ UNCHANGED <<users, images, userSeq, imageSeq, uuidSeq, clock>>

get_images_resolve(r) == ResolveUser(r, "get_images", "fetch")

get_images_select(r) ==
    /\ req[r].op = "get_images"
    /\ req[r].pc = "fetch"
    /\ \E s \in OrderBy(ImagesOf(req[r].user_id)) : Reply(r, 200, s)
    /\ UNCHANGED <<users, images, userSeq, imageSeq, uuidSeq, clock>>

\* POST /api/images
create_image(r, env) ==
    /\ \E g \in env.headers : require_guest_id(r, "create_image", g, 0)
    /\ UNCHANGED <<users, images, userSeq, imageSeq, uuidSeq, clock>>

\* variant: only the absence of the key is refused
InvalidUrlAbsentOnly(data) == "image_url" \notin data.has

\* not data.get("image_url")
InvalidUrl(data) == Get(data, "image_url", "") = ""

\* data = request.get_json(); if not data.get("image_url"): 400; the user lookup
create_image_resolve(r, env) ==
    /\ req[r].op = "create_image"
    /\ req[r].pc = "resolve"
    /\ \E data \in {UrlPart(b) : b \in env.create} :
         IF InvalidUrl(data)
         THEN req' = [req EXCEPT ![r].data = data, ![r].pc = "done", ![r].status = 400]
         ELSE IF UsersByGuest(req[r].guest_id) = {}
         THEN req' = [req EXCEPT ![r].data = data, ![r].pc = "done", ![r].status = 404]
         ELSE \E u \in UsersByGuest(req[r].guest_id) :
                 req' = [req EXCEPT ![r].data = data, ![r].user_id = u.id,
                                    ![r].pc = "maxorder"]
    /\ UNCHANGED <<users, images, userSeq, imageSeq, uuidSeq, clock>>

\* variant: the number of rows as the next order
NextOrderCount(rows) == Cardinality(rows)

\* the display_order of ORDER BY display_order DESC LIMIT 1, or -1, plus 1
NextOrder(rows) ==
    IF rows = {} THEN -1 + 1
    ELSE (CHOOSE m \in {im.display_order : im \in rows} :
            \A im \in rows : im.display_order <= m) + 1

create_image_maxorder(r) ==
    /\ req[r].op = "create_image"
    /\ req[r].pc = "maxorder"
    /\ req' = [req EXCEPT ![r].next_order = NextOrder(ImagesOf(req[r].user_id)),
                          ![r].pc = "insert"]
    /\ UNCHANGED <<users, images, userSeq, imageSeq, uuidSeq, clock>>

\* variant: the order is computed again by the insert itself
NewImageAtomic(r, data) ==
    [id |-> imageSeq, user_id |-> req[r].user_id,
     title |-> Get(data, "title", "Untitled"),
     image_url |-> Get(data, "image_url", ""),
     description |-> Get(data, "description", ""),
     display_order |-> NextOrder(ImagesOf(req[r].user_id)),
     created_at |-> utcnow, updated_at |-> utcnow]

\* the row of the insert: next_order is the value computed from the earlier read
NewImage(r, data) ==
    [id |-> imageSeq, user_id |-> req[r].user_id,
     title |-> Get(data, "title", "Untitled"),
     image_url |-> Get(data, "image_url", ""),
     description |-> Get(data, "description", ""),
     display_order |-> req[r].next_order,
     created_at |-> utcnow, updated_at |-> utcnow]

\* INSERT INTO images; the title and description keys of the body are read here
create_image_insert(r, env) ==
    /\ req[r].op = "create_image"
    /\ req[r].pc = "insert"
    /\ imageSeq <= env.images
    /\ \E data \in {b \in env.create : UrlPart(b) = req[r].data} :
         /\ images' = images \cup {NewImage(r, data)}
         /\ req' = [req EXCEPT ![r].data = data, ![r].pc = "done", ![r].status = 201,
                               ![r].body = <<NewImage(r, data)>>]
    /\ imageSeq' = imageSeq + 1
    /\ UNCHANGED <<users, userSeq, uuidSeq, clock>>

\* PUT /api/images/<image_id>
update_image(r, env) ==
    /\ \E g \in env.headers, id \in env.ids : require_guest_id(r, "update_image", g, id)
    /\ UNCHANGED <<users, images, userSeq, imageSeq, uuidSeq, clock>>

update_image_resolve(r) == ResolveUser(r, "update_image", "check")

\* image = SELECT * FROM images WHERE id = image_id AND user_id = user_id
CheckOwnership(r, op) ==
    /\ req[r].op = op
    /\ req[r].pc = "check"
    /\ IF OwnedImage(req[r].image_id, req[r].user_id) = {}
       THEN Reply(r, 404, <<>>)
       ELSE req' = [req EXCEPT ![r].pc = "write"]
    /\ UNCHANGED <<users, images, userSeq, imageSeq, uuidSeq, clock>>

update_image_check(r) == CheckOwnership(r, "update_image")

\* variant: a full replacement, absent keys reset to their defaults
UpdateDataReplace(im, data, now) ==
    [im EXCEPT !.updated_at = now,
               !.title = IF "title" \in data.has THEN data.title ELSE "Untitled",
               !.description = IF "description" \in data.has THEN data.description ELSE "",
               !.image_url = IF "image_url" \in data.has THEN data.image_url ELSE @,
               !.display_order =
                   IF "display_order" \in data.has THEN data.display_order ELSE @]

\* variant: user_id is taken from the body like the other fields
UpdateDataOwner(im, data, now) ==
    [im EXCEPT !.updated_at = now,
               !.user_id = IF "user_id" \in data.has THEN data.user_id ELSE @,
               !.title = IF "title" \in data.has THEN data.title ELSE @,
               !.description = IF "description" \in data.has THEN data.description ELSE @,
               !.image_url = IF "image_url" \in data.has THEN data.image_url ELSE @,
               !.display_order =
                   IF "display_order" \in data.has THEN data.display_order ELSE @]

\* update_data applied to one row
UpdateData(im, data, now) ==
    [im EXCEPT !.updated_at = now,
               !.title = IF "title" \in data.has THEN data.title ELSE @,
               !.description = IF "description" \in data.has THEN data.description ELSE @,
               !.image_url = IF "image_url" \in data.has THEN data.image_url ELSE @,
               !.display_order =
                   IF "display_order" \in data.has THEN data.display_order ELSE @]

\* variant: an update that finds no row answers with a row made of the request
UpdateTargetStale(r) ==
    IF \E im \in images : im.id = req[r].image_id
    THEN {im \in images : im.id = req[r].image_id}
    ELSE {[id |-> req[r].image_id, user_id |-> req[r].user_id, title |-> "Untitled",
           image_url |-> "", description |-> "", display_order |-> 0,
           created_at |-> utcnow, updated_at |-> utcnow]}

\* the rows UPDATE images ... WHERE id = image_id touches
UpdateTarget(r) == {im \in images : im.id = req[r].image_id}

\* UPDATE images SET update_data WHERE id = image_id; response.data[0].
\* The request body is drawn here, where the handler first reads its keys.
update_image_update(r, env) ==
    /\ req[r].op = "update_image"
    /\ req[r].pc = "write"
    /\ \E data \in env.update :
         /\ images' = {IF im \in UpdateTarget(r) THEN UpdateData(im, data, utcnow) ELSE im :
                          im \in images}
         /\ IF UpdateTarget(r) = {}
            THEN req' = [req EXCEPT ![r].data = data, ![r].pc = "done", ![r].status = 500]
            ELSE \E im \in UpdateTarget(r) :
                    req' = [req EXCEPT ![r].data = data, ![r].pc = "done",
                                       ![r].status = 200,
                                       ![r].body = <<UpdateData(im, data, utcnow)>>]
    /\ UNCHANGED <<users, userSeq, imageSeq, uuidSeq, clock>>

\* DELETE /api/images/<image_id>
delete_image(r, env) ==
    /\ \E g \in env.headers, id \in env.ids :
          require_guest_id(r, "delete_image", g, id)
    /\ UNCHANGED <<users, images, userSeq, imageSeq, uuidSeq, clock>>

delete_image_resolve(r) == ResolveUser(r, "delete_image", "check")

delete_image_check(r) == CheckOwnership(r, "delete_image")

\* variant: the delete statement is built but matches nothing
DeleteTargetNone(r) == {}

\* the rows DELETE FROM images WHERE id = image_id removes
DeleteTarget(r) == {im \in images : im.id = req[r].image_id}

delete_image_delete(r) ==
    /\ req[r].op = "delete_image"
    /\ req[r].pc = "write"
    /\ images' = images \ DeleteTarget(r)
    /\ Reply(r, 200, <<>>)
    /\ UNCHANGED <<users, userSeq, imageSeq, uuidSeq, clock>>

\* POST /api/images/reorder
reorder_images(r, env) ==
    /\ \E g \in env.headers : require_guest_id(r, "reorder_images", g, 0)
    /\ UNCHANGED <<users, images, userSeq, imageSeq, uuidSeq, clock>>

\* order_list = data.get("order", []); the user lookup; an empty order list
\* then falls through the loop to 200
reorder_images_resolve(r, env) ==
    /\ req[r].op = "reorder_images"
    /\ req[r].pc = "resolve"
    /\ \E order_list \in env.reorder :
         IF UsersByGuest(req[r].guest_id) = {}
         THEN req' = [req EXCEPT ![r].order_list = order_list, ![r].pc = "done",
                                 ![r].status = 404]
         ELSE \E u \in UsersByGuest(req[r].guest_id) :
                 req' = [req EXCEPT ![r].order_list = order_list, ![r].user_id = u.id,
                                    ![r].pc = IF order_list = <<>> THEN "done" ELSE "loop",
                                    ![r].status = IF order_list = <<>> THEN 200 ELSE 0]
    /\ UNCHANGED <<users, images, userSeq, imageSeq, uuidSeq, clock>>

\* variant: the reorder update without its user_id filter
ReorderTargetAnyUser(item, uid) == {im \in images : im.id = item.id}

\* the rows UPDATE images ... WHERE id = item.id AND user_id = user_id touches
ReorderTarget(item, uid) == {im \in images : im.id = item.id /\ im.user_id = uid}

\* variant: the id of the pair written as the order
ReorderRowById(im, item) == [im EXCEPT !.display_order = item.id]

\* {"display_order": item["order"]} applied to one row
ReorderRow(im, item) == [im EXCEPT !.display_order = item.order]

\* one turn of the loop: the UPDATE of the next item; 200 after the last.
\* done counts the items the loop has been through.
reorder_images_update(r) ==
    /\ req[r].op = "reorder_images"
    /\ req[r].pc = "loop"
    /\ LET item == req[r].order_list[req[r].done + 1]
           last == req[r].done + 1 = Len(req[r].order_list)
       IN /\ images' = {IF im \in ReorderTarget(item, req[r].user_id)
                           THEN ReorderRow(im, item) ELSE im : im \in images}
          /\ IF last
             THEN req' = [req EXCEPT ![r].done = @ + 1, ![r].pc = "done",
                                     ![r].status = 200]
             ELSE req' = [req EXCEPT ![r].done = @ + 1]
    /\ UNCHANGED <<users, userSeq, imageSeq, uuidSeq, clock>>

\* ---------------------------------------------------------------- upload route
\* POST /api/upload
upload_file(r, env) ==
    /\ \E g \in env.headers : require_guest_id(r, "upload_file", g, 0)
    /\ UNCHANGED <<users, images, userSeq, imageSeq, uuidSeq, clock>>

\* "file" not in request.files, or file.filename == ""
InvalidFile(file) == ~file.part \/ (file.stem = "" /\ file.ext = "")

\* the two checks of request.files, 400; then the user lookup, 404
upload_file_resolve(r) ==
    /\ req[r].op = "upload_file"
    /\ req[r].pc = "resolve"
    /\ \E file \in Files :
         IF InvalidFile(file)
         THEN req' = [req EXCEPT ![r].file = file, ![r].pc = "done", ![r].status = 400]
         ELSE IF UsersByGuest(req[r].guest_id) = {}
         THEN req' = [req EXCEPT ![r].file = file, ![r].pc = "done", ![r].status = 404]
         ELSE \E u \in UsersByGuest(req[r].guest_id) :
                 req' = [req EXCEPT ![r].file = file, ![r].user_id = u.id,
                                    ![r].pc = "store"]
    /\ UNCHANGED <<users, images, userSeq, imageSeq, uuidSeq, clock>>

\* os.path.splitext(file.filename)[1]
splitext(file) == file.ext

\* f"{user_id}/{uuid.uuid4()}{file_ext}"
unique_filename(user_id, uuid, file) == <<user_id, uuid, splitext(file)>>

\* storage.upload and get_public_url: the blob store keeps the file under the
\* generated name; neither table is read or written
upload_file_store(r) ==
    /\ req[r].op = "upload_file"
    /\ req[r].pc = "store"
    /\ uuidSeq - userSeq < MaxUploads
    /\ Reply(r, 201, <<[url |-> <<"images", unique_filename(req[r].user_id, uuid4(uuidSeq),
                                                            req[r].file)>>,
                        filename |-> unique_filename(req[r].user_id, uuid4(uuidSeq),
                                                     req[r].file)]>>)
    /\ uuidSeq' = uuidSeq + 1
    /\ UNCHANGED <<users, images, userSeq, imageSeq, clock>>

\* ---------------------------------------------------------------- store failure
\* the positions at which a handler has a store statement to run next
StorePcs == {"resolve", "maxorder", "insert", "check", "write", "fetch", "touch", "store"}

\* variant: the failure of one pair is swallowed and the loop goes on
StoreErrorIgnored(r) ==
    IF req[r].pc = "loop"
    THEN req' = [req EXCEPT ![r].done = @ + 1,
                            ![r].pc = IF req[r].done + 1 = Len(req[r].order_list)
                                      THEN "done" ELSE "loop",
                            ![r].status = IF req[r].done + 1 = Len(req[r].order_list)
                                          THEN 200 ELSE 0]
    ELSE Reply(r, 500, <<>>)

\* except Exception as e: return jsonify({"error": str(e)}), 500
StoreError(r) == Reply(r, 500, <<>>)

\* the insert of create_guest raises: nothing is stored
create_guest_fails(r) ==
    /\ req[r].pc = "idle"
    /\ req' = [req EXCEPT ![r] =
            [IdleReq EXCEPT !.op = "create_guest", !.pc = "done", !.status = 500]]
    /\ UNCHANGED <<users, images, userSeq, imageSeq, uuidSeq, clock>>

\* the store statement a handler is about to run raises: the statement has no
\* effect and the handler's except clause answers
statement_fails(r) ==
    /\ req[r].pc \in StorePcs
    /\ StoreError(r)
    /\ UNCHANGED <<users, images, userSeq, imageSeq, uuidSeq, clock>>

\* the UPDATE of the next pair of the reorder loop raises: the loop is left
\* through the except clause, the pairs before stay written
reorder_images_update_fails(r) ==
    /\ req[r].op = "reorder_images"
    /\ req[r].pc = "loop"
    /\ StoreError(r)
    /\ UNCHANGED <<users, images, userSeq, imageSeq, uuidSeq, clock>>

\* ---------------------------------------------------------------- environment
\* the response has been sent; the worker takes the next request
Respond(r) ==
    /\ req[r].pc = "done"
    /\ req' = [req EXCEPT ![r] = IdleReq]
    /\ UNCHANGED <<users, images, userSeq, imageSeq, uuidSeq, clock>>

\* time passes
Tick ==
    /\ clock < MaxClock
    /\ clock' = clock + 1
    /\ UNCHANGED <<users, images, userSeq, imageSeq, uuidSeq, req>>

Enter(r, env) ==
    \/ create_guest(r, env)
    \/ verify_guest(r, env)
    \/ get_images(r, env)
    \/ create_image(r, env)
    \/ update_image(r, env)
    \/ delete_image(r, env)
    \/ reorder_images(r, env)

Step(r, env) ==
    \/ verify_guest_select(r)
    \/ verify_guest_update(r)
    \/ get_images_resolve(r)
    \/ get_images_select(r)
    \/ create_image_resolve(r, env)
    \/ create_image_maxorder(r)
    \/ create_image_insert(r, env)
    \/ update_image_resolve(r)
    \/ update_image_check(r)
    \/ update_image_update(r, env)
    \/ delete_image_resolve(r)
    \/ delete_image_check(r)
    \/ delete_image_delete(r)
    \/ reorder_images_resolve(r, env)
    \/ reorder_images_update(r)
    \/ Respond(r)

Next == \E r \in Reqs : Enter(r, EnvConc) \/ Step(r, EnvConc)

Spec == Init /\ [][Next]_vars

\* one request at a time: the requests of one worker
SeqReq == "r1"

NextSeq == Enter(SeqReq, EnvSeq) \/ Step(SeqReq, EnvSeq)

SpecSeq == Init /\ [][NextSeq]_vars

NextCreate == Enter(SeqReq, EnvCreate) \/ Step(SeqReq, EnvCreate)

SpecCreate == Init /\ [][NextCreate]_vars

NextReorder == Enter(SeqReq, EnvReorder) \/ Step(SeqReq, EnvReorder)

SpecReorder == Init /\ [][NextReorder]_vars

NextData == Tick \/ Enter(SeqReq, EnvData) \/ Step(SeqReq, EnvData)

SpecData == Init /\ [][NextData]_vars

\* one request at a time while time passes; update bodies carry a user_id key
NextOwner == Tick \/ Enter(SeqReq, EnvOwner) \/ Step(SeqReq, EnvOwner)

SpecOwner == Init /\ [][NextOwner]_vars

\* one request at a time, issue, create, delete and list only
NextAppend ==
    \/ create_guest(SeqReq, EnvAppend)
    \/ get_images(SeqReq, EnvAppend)
    \/ get_images_resolve(SeqReq)
    \/ get_images_select(SeqReq)
    \/ create_image(SeqReq, EnvAppend)
    \/ create_image_resolve(SeqReq, EnvAppend)
    \/ create_image_maxorder(SeqReq)
    \/ create_image_insert(SeqReq, EnvAppend)
    \/ delete_image(SeqReq, EnvAppend)
    \/ delete_image_resolve(SeqReq)
    \/ delete_image_check(SeqReq)
    \/ delete_image_delete(SeqReq)
    \/ Respond(SeqReq)

SpecAppend == Init /\ [][NextAppend]_vars

\* one request at a time, the upload route included
NextAuth ==
    \/ Enter(SeqReq, EnvSeq)
    \/ Step(SeqReq, EnvSeq)
    \/ upload_file(SeqReq, EnvSeq)
    \/ upload_file_resolve(SeqReq)
    \/ upload_file_store(SeqReq)

SpecAuth == Init /\ [][NextAuth]_vars

\* one request at a time over a store whose statements can fail
NextFail ==
    \/ Enter(SeqReq, EnvReorder)
    \/ Step(SeqReq, EnvReorder)
    \/ create_guest_fails(SeqReq)
    \/ statement_fails(SeqReq)
    \/ reorder_images_update_fails(SeqReq)

SpecFail == Init /\ [][NextFail]_vars

\* ---------------------------------------------------------------- properties
\* request r took the step of this transition
Stepped(r) == req'[r] # req[r]

Ids(rows) == {im.id : im \in rows}

ImageOps == {"get_images", "create_image", "update_image", "delete_image", "reorder_images"}

\* the image a request names in its path exists and belongs to another user
ForeignImage(r) ==
    \E im \in images : im.id = req[r].image_id /\ im.user_id # req[r].user_id

\* C1: an update or a delete by a registered guest on the id of an image that
\* another user owns ends in 404 at its ownership check and leaves the image
\* table as it was.
C1_ForeignWriteNotFound ==
    [][\A r \in Reqs :
         (/\ req[r].op \in {"update_image", "delete_image"}
          /\ req[r].pc = "check"
          /\ Stepped(r)
          /\ ForeignImage(r))
         => (/\ req'[r].pc = "done"
             /\ req'[r].status = 404
             /\ images' = images)]_vars

C1_Witness ==
    \E r \in Reqs :
       /\ req[r].op = "update_image"
       /\ req[r].pc = "done"
       /\ req[r].status = 404
       /\ req[r].user_id # 0
       /\ ForeignImage(r)

\* C2: whatever the interleaving of the store statements of concurrent requests,
\* a step of a request that resolved to user B leaves every image of another
\* user in the table unchanged, and the response it builds holds rows of B only.
C2_NoCrossUserEffect ==
    [][\A r \in Reqs :
         (Stepped(r) /\ req[r].user_id # 0)
         => (/\ \A im \in images : im.user_id # req[r].user_id => im \in images'
             /\ \A i \in 1..Len(req'[r].body) :
                   req'[r].body[i].user_id = req[r].user_id)]_vars

C2_Witness ==
    \E r1, r2 \in Reqs :
       /\ req[r1].op = "update_image" /\ req[r1].pc = "write"
       /\ req[r2].op = "delete_image" /\ req[r2].pc = "write"
       /\ req[r1].user_id # req[r2].user_id
       /\ OwnedImage(req[r1].image_id, req[r1].user_id) # {}
       /\ OwnedImage(req[r2].image_id, req[r2].user_id) # {}

\* C3: the list of a registered guest answers 200 with exactly the images whose
\* user_id is the user of the token, each once, in ascending display_order; the
\* empty sequence when the user has none.
C3_ListOwnSorted ==
    [][\A r \in Reqs :
         /\ (/\ req[r].op = "get_images" /\ req[r].pc = "resolve" /\ Stepped(r)
             /\ \E u \in users : u.guest_id = req[r].guest_id)
            => (/\ req'[r].pc = "fetch"
                /\ \E u \in users :
                      u.guest_id = req[r].guest_id /\ u.id = req'[r].user_id)
         /\ (req[r].op = "get_images" /\ req[r].pc = "fetch" /\ Stepped(r))
            => LET b == req'[r].body
                   own == {im \in images : im.user_id = req[r].user_id}
               IN /\ req'[r].pc = "done"
                  /\ req'[r].status = 200
                  /\ Len(b) = Cardinality(own)
                  /\ {b[i] : i \in 1..Len(b)} = own
                  /\ \A i, j \in 1..Len(b) :
                        i < j => b[i].display_order <= b[j].display_order]_vars

C3_Witness ==
    \E r \in Reqs :
       /\ req[r].op = "get_images"
       /\ req[r].pc = "done"
       /\ req[r].status = 200
       /\ Len(req[r].body) = 2
       /\ req[r].body[1].id > req[r].body[2].id
       /\ req[r].body[1].display_order < req[r].body[2].display_order

C5_EmptyUrlInvalid ==
    [][\A r \in Reqs :
         (/\ req[r].op = "create_image" /\ req[r].pc = "resolve" /\ Stepped(r)
          /\ ("image_url" \notin req'[r].data.has \/ req'[r].data.image_url = ""))
         => (/\ req'[r].pc = "done"
             /\ req'[r].status = 400
             /\ images' = images
             /\ users' = users)]_vars

C5_Witness ==
    \E r \in Reqs :
       /\ req[r].op = "create_image"
       /\ req[r].pc = "done"
       /\ req[r].status = 400
       /\ "image_url" \in req[r].data.has
       /\ \E u \in users : u.guest_id = req[r].guest_id
       /\ images # {}

\* the first store statement of an image operation finds no user for the token
UnknownToken(r) ==
    /\ req[r].op \in ImageOps
    /\ req[r].pc = "resolve"
    /\ Stepped(r)
    /\ \A u \in users : u.guest_id # req[r].guest_id

\* C6 as stated: every image operation with a token that is not registered ends
\* in 404, a create with an empty image_url included, and changes no table.
C6_UnknownTokenNotFound ==
    [][\A r \in Reqs :
         UnknownToken(r)
         => (/\ req'[r].pc = "done"
             /\ req'[r].status = 404
             /\ images' = images
             /\ users' = users)]_vars

\* C6 amended: every image operation with a token that is not registered ends
\* in 404 and changes no table, except a create whose image_url is absent or
\* empty, which ends in 400 and changes no table.
C6_UnknownTokenNotFoundOr400 ==
    [][\A r \in Reqs :
         UnknownToken(r)
         => (/\ req'[r].pc = "done"
             /\ req'[r].status =
                   (IF /\ req[r].op = "create_image"
                       /\ ("image_url" \notin req'[r].data.has
                              \/ req'[r].data.image_url = "")
                    THEN 400 ELSE 404)
             /\ images' = images
             /\ users' = users)]_vars

C6_Witness ==
    \E r \in Reqs :
       /\ req[r].op = "update_image"
       /\ req[r].pc = "done"
       /\ req[r].status = 404
       /\ req[r].user_id = 0
       /\ req[r].image_id \in Ids(images)
       /\ users # {}

\* an id the store has handed out whose row is gone: a deleted image
Deleted(i) == i \in 1..(imageSeq - 1) /\ i \notin Ids(images)

\* C7: the delete statement of a delete answers 200 and leaves no row with the
\* id; an id whose row is gone never has a row again; a list returns only rows
\* of the table, so never a deleted id; the ownership check of a delete of a
\* deleted id ends in 404.
C7_DeletedStaysDeleted ==
    [][/\ \A i \in 1..(imageSeq - 1) : Deleted(i) => i \notin Ids(images')
       /\ \A r \in Reqs :
            /\ (req[r].op = "delete_image" /\ req[r].pc = "write" /\ Stepped(r))
               => (/\ req'[r].pc = "done"
                   /\ req'[r].status = 200
                   /\ req[r].image_id \notin Ids(images'))
            /\ (req[r].op = "get_images" /\ req[r].pc = "fetch" /\ Stepped(r))
               => \A k \in 1..Len(req'[r].body) : ~Deleted(req'[r].body[k].id)
            /\ (/\ req[r].op = "delete_image" /\ req[r].pc = "check" /\ Stepped(r)
                /\ Deleted(req[r].image_id))
               => (/\ req'[r].pc = "done"
                   /\ req'[r].status = 404
                   /\ images' = images)]_vars

C7_Witness ==
    \E r1, r2 \in Reqs :
       /\ req[r1].op = "delete_image" /\ req[r1].pc = "done" /\ req[r1].status = 200
       /\ req[r2].op = "delete_image" /\ req[r2].pc = "done" /\ req[r2].status = 404
       /\ req[r1].image_id = req[r2].image_id
       /\ req[r1].user_id = req[r2].user_id
       /\ Deleted(req[r1].image_id)

\* the order of the last pair of a list that names an id
LastOrder(list, id) ==
    list[CHOOSE k \in 1..Len(list) :
            /\ list[k].id = id
            /\ \A j \in 1..Len(list) : list[j].id = id => j <= k].order

\* C8: each turn of the reorder loop of user U sets the display_order of the row
\* that has the id of the pair and belongs to U, and changes no other field and
\* no other row (a pair naming a foreign or unknown id changes nothing); the
\* call answers 200, and every row of U named in the list then has the order of
\* its last pair.
C8_ReorderFrame ==
    [][\A r \in Reqs :
         /\ (req[r].op = "reorder_images" /\ req[r].pc = "resolve" /\ Stepped(r))
            => (/\ images' = images
                /\ (req'[r].user_id # 0 /\ req'[r].order_list = <<>>)
                      => (req'[r].pc = "done" /\ req'[r].status = 200))
         /\ (req[r].op = "reorder_images" /\ req[r].pc = "loop" /\ Stepped(r))
            => LET list == req[r].order_list
                   item == list[req[r].done + 1]
                   uid == req[r].user_id
               IN /\ Cardinality(images') = Cardinality(images)
                  /\ \A im \in images :
                        IF im.id = item.id /\ im.user_id = uid
                        THEN [im EXCEPT !.display_order = item.order] \in images'
                        ELSE im \in images'
                  /\ IF req[r].done + 1 = Len(list)
                     THEN /\ req'[r].pc = "done"
                          /\ req'[r].status = 200
                          /\ \A im \in images' :
                                (im.user_id = uid /\ \E k \in 1..Len(list) : list[k].id = im.id)
                                => im.display_order = LastOrder(list, im.id)
                     ELSE req'[r].pc = "loop"]_vars

C8_Witness ==
    \E r \in Reqs :
       /\ req[r].op = "reorder_images"
       /\ req[r].pc = "done"
       /\ req[r].status = 200
       /\ Len(req[r].order_list) = 2
       /\ \E mine, other \in images :
             /\ mine.user_id = req[r].user_id
             /\ other.user_id # req[r].user_id
             /\ req[r].order_list[1].id = other.id
             /\ req[r].order_list[1].order # other.display_order
             /\ req[r].order_list[2].id = mine.id
             /\ req[r].order_list[2].order = mine.display_order
             /\ mine.display_order # 0

\* C9: issue adds one user whose token and id no user of the table has, and
\* answers 201 with that token and id; no two users ever share a token; a verify
\* or an image operation that looks a registered token up resolves to the id of
\* the user with that token.
C9_FreshToken ==
    [][/\ \A u, v \in users' : u.guest_id = v.guest_id => u = v
       /\ \A r \in Reqs :
            /\ (req'[r].op = "create_guest" /\ req[r].pc = "idle" /\ Stepped(r))
               => \E u \in users' :
                     /\ users' = users \cup {u}
                     /\ \A v \in users : v.guest_id # u.guest_id /\ v.id # u.id
                     /\ req'[r].status = 201
                     /\ req'[r].body = <<[guest_id |-> u.guest_id, user_id |-> u.id]>>
            /\ (/\ req[r].pc = "resolve" /\ Stepped(r) /\ req'[r].status # 400
                /\ \E u \in users : u.guest_id = req[r].guest_id)
               => \E u \in users :
                     u.guest_id = req[r].guest_id /\ req'[r].user_id = u.id]_vars

C9_Witness ==
    \E r \in Reqs :
       /\ req[r].op = "verify_guest"
       /\ req[r].pc = "done"
       /\ req[r].status = 200
       /\ Cardinality(users) = 2
       /\ \E u \in users :
             /\ u.id = req[r].user_id
             /\ u.guest_id = req[r].guest_id
             /\ \E v \in users : v.id < u.id

\* C10: the update statement of an update that passed its ownership check
\* answers 200 with the row it wrote: title, description, image_url and
\* display_order are those of the body where the body has the key and those of
\* the row before otherwise; updated_at is the instant of the update; id,
\* user_id and created_at are those of the row before, whatever keys the body
\* has; every other row is unchanged.
C10_UpdateFrame ==
    [][\A r \in Reqs :
         (/\ req[r].op = "update_image" /\ req[r].pc = "write" /\ Stepped(r)
          /\ req'[r].status = 200)
         => LET d == req'[r].data
            IN /\ Cardinality(images') = Cardinality(images)
               /\ \A im \in images :
                     IF im.id # req[r].image_id
                     THEN im \in images'
                     ELSE \E n \in images' :
                            /\ req'[r].body = <<n>>
                            /\ n.id = im.id
                            /\ n.user_id = im.user_id
                            /\ n.created_at = im.created_at
                            /\ n.updated_at = clock
                            /\ n.title = (IF "title" \in d.has THEN d.title ELSE im.title)
                            /\ n.description =
                                  (IF "description" \in d.has THEN d.description
                                   ELSE im.description)
                            /\ n.image_url =
                                  (IF "image_url" \in d.has THEN d.image_url
                                   ELSE im.image_url)
                            /\ n.display_order =
                                  (IF "display_order" \in d.has THEN d.display_order
                                   ELSE im.display_order)]_vars

C10_Witness ==
    \E r \in Reqs :
       /\ req[r].op = "update_image"
       /\ req[r].pc = "done"
       /\ req[r].status = 200
       /\ req[r].data.has = {"title", "user_id"}
       /\ req[r].data.user_id # req[r].user_id
       /\ req[r].body[1].title = "T"
       /\ req[r].body[1].description = "D"
       /\ req[r].body[1].user_id = req[r].user_id
       /\ req[r].body[1].created_at < req[r].body[1].updated_at
       /\ \E im \in images : im.id # req[r].image_id

\* the routes behind @require_guest_id
GuardedOps == ImageOps \cup {"verify_guest", "upload_file"}

\* C11: a verify, an image operation or an upload whose X-Guest-ID header is
\* absent or empty ends in 401 in the step it arrives in, before any store
\* statement and before its body or file is read, and changes neither table; no
\* such request ever ends in 400 or 404.
C11_MissingAuthFirst ==
    [][\A r \in Reqs :
         /\ (/\ req[r].pc = "idle" /\ Stepped(r)
             /\ req'[r].op \in GuardedOps
             /\ req'[r].guest_id \in {NoHeader, ""})
            => (/\ req'[r].pc = "done"
                /\ req'[r].status = 401
                /\ req'[r].data = EmptyBody
                /\ req'[r].file = NoFile
                /\ req'[r].user_id = 0
                /\ users' = users
                /\ images' = images)
         /\ (req'[r].op \in GuardedOps /\ req'[r].guest_id \in {NoHeader, ""})
            => (req'[r].pc = "done" /\ req'[r].status = 401)]_vars

C11_Witness ==
    \E r \in Reqs :
       /\ req[r].op = "upload_file"
       /\ req[r].pc = "done"
       /\ req[r].status = 401
       /\ req[r].guest_id = ""
       /\ users # {}
       /\ images # {}

\* C12: when the update of pair k of a reorder list fails, the step changes no
\* row, the request ends in 500 with k-1 pairs counted as done, and its only
\* further step is the response; each turn before it wrote the order of its own
\* pair to the row it names and nothing else, so in the end every own row named
\* in pairs 1..k-1 has the order of its last pair among them and no pair from k
\* on has been applied.
C12_ReorderPartial ==
    [][\A r \in Reqs :
         /\ (/\ req[r].op = "reorder_images" /\ req[r].pc = "loop" /\ Stepped(r)
             /\ req'[r].status = 500)
            => LET list == req[r].order_list
                   k == req[r].done + 1
               IN /\ images' = images
                  /\ req'[r].pc = "done"
                  /\ req'[r].done = k - 1
                  /\ \A im \in images' :
                        (/\ im.user_id = req[r].user_id
                         /\ \E j \in 1..(k - 1) : list[j].id = im.id)
                        => im.display_order = LastOrder(SubSeq(list, 1, k - 1), im.id)
         /\ (/\ req[r].op = "reorder_images" /\ req[r].pc = "loop" /\ Stepped(r)
             /\ req'[r].status # 500)
            => LET item == req[r].order_list[req[r].done + 1]
               IN /\ req'[r].done = req[r].done + 1
                  /\ \A im \in images :
                        IF im.id = item.id /\ im.user_id = req[r].user_id
                        THEN [im EXCEPT !.display_order = item.order] \in images'
                        ELSE im \in images'
                  /\ Cardinality(images') = Cardinality(images)
         /\ (/\ req[r].op = "reorder_images" /\ req[r].pc = "done" /\ Stepped(r)
             /\ req[r].status = 500)
            => (images' = images /\ req'[r] = IdleReq)]_vars

C12_Witness ==
    \E r \in Reqs :
       /\ req[r].op = "reorder_images"
       /\ req[r].pc = "done"
       /\ req[r].status = 500
       /\ req[r].done = 1
       /\ Len(req[r].order_list) = 2
       /\ \E first, second \in images :
             /\ first.user_id = req[r].user_id
             /\ second.user_id = req[r].user_id
             /\ first.id # second.id
             /\ req[r].order_list[1].id = first.id
             /\ req[r].order_list[1].order = first.display_order
             /\ req[r].order_list[2].id = second.id
             /\ req[r].order_list[2].order # second.display_order
             /\ first.display_order = second.display_order

\* C13: in every reachable state every row of the image table has a non-empty
\* image_url.
C13_UrlNonEmpty == \A im \in images : im.image_url # ""

\* C14: every image's user_id is the id of a user of the user table; the row a
\* create inserts has the user_id of the user whose token the request carries;
\* a row keeps its user_id as long as it is in the table, whatever a request
\* body holds.
C14_OwnerFixed ==
    [][/\ \A im \in images' : \E u \in users' : u.id = im.user_id
       /\ \A im \in images, n \in images' : n.id = im.id => n.user_id = im.user_id
       /\ \A r \in Reqs :
            (req[r].op = "create_image" /\ req[r].pc = "insert" /\ Stepped(r))
            => \A n \in images' \ images :
                  \E u \in users : u.guest_id = req[r].guest_id /\ u.id = n.user_id]_vars

C14_Witness ==
    \E r \in Reqs :
       /\ req[r].op = "update_image"
       /\ req[r].pc = "done"
       /\ req[r].status = 200
       /\ req[r].data.has = {"user_id"}
       /\ req[r].data.user_id # req[r].user_id
       /\ \E u \in users : u.id = req[r].data.user_id
       /\ \E im \in images : im.id = req[r].image_id /\ im.user_id = req[r].user_id

\* C15: a step changes the user table only if it is an issue, which adds one
\* user and keeps the others, or the update of a verify, which sets
\* last_accessed of the user with the request's token to the instant of the
\* step, keeps every other field and every other user, and answers 200 with
\* that user's id, token and created_at; a verify of an unregistered token ends
\* in 404 and changes no table; no step of an image operation changes the user
\* table.
C15_UserTableFrame ==
    [][/\ users' # users
          => \E r \in Reqs :
                /\ Stepped(r)
                /\ \/ req[r].pc = "idle" /\ req'[r].op = "create_guest"
                   \/ req[r].op = "verify_guest" /\ req[r].pc = "touch"
       /\ \A r \in Reqs :
            /\ (req[r].pc = "idle" /\ req'[r].op = "create_guest" /\ Stepped(r))
               => (users \subseteq users' /\ Cardinality(users' \ users) = 1)
            /\ (req[r].op = "verify_guest" /\ req[r].pc = "touch" /\ Stepped(r))
               => (/\ Cardinality(users') = Cardinality(users)
                   /\ \A u \in users :
                         IF u.guest_id = req[r].guest_id
                         THEN /\ [u EXCEPT !.last_accessed = clock] \in users'
                              /\ req'[r].body = <<[user_id |-> u.id, guest_id |-> u.guest_id,
                                                   created_at |-> u.created_at]>>
                         ELSE u \in users'
                   /\ req'[r].pc = "done"
                   /\ req'[r].status = 200
                   /\ images' = images)
            /\ (/\ req[r].op = "verify_guest" /\ req[r].pc = "resolve" /\ Stepped(r)
                /\ \A u \in users : u.guest_id # req[r].guest_id)
               => (/\ req'[r].pc = "done"
                   /\ req'[r].status = 404
                   /\ users' = users
                   /\ images' = images)
            /\ (req[r].op \in ImageOps /\ Stepped(r)) => users' = users]_vars

C15_Witness ==
    \E r \in Reqs :
       /\ req[r].op = "verify_guest"
       /\ req[r].pc = "done"
       /\ req[r].status = 200
       /\ images # {}
       /\ \E u, v \in users :
             /\ u.id = req[r].user_id
             /\ u.created_at < u.last_accessed
             /\ v.id # u.id
             /\ v.last_accessed = v.created_at
             /\ v.last_accessed < clock

\* C16: when the update statement of an update that passed its ownership check
\* runs after a concurrent delete has removed the row, it matches no row: the
\* request ends in 500 with no record, the table is unchanged and the id still
\* has no row.
C16_UpdateAfterDelete ==
    [][\A r \in Reqs :
         (/\ req[r].op = "update_image" /\ req[r].pc = "write" /\ Stepped(r)
          /\ Deleted(req[r].image_id))
         => (/\ req'[r].pc = "done"
             /\ req'[r].status = 500
             /\ req'[r].body = <<>>
             /\ images' = images
             /\ req[r].image_id \notin Ids(images'))]_vars

C16_Witness ==
    \E r1, r2 \in Reqs :
       /\ req[r1].op = "update_image" /\ req[r1].pc = "done" /\ req[r1].status = 500
       /\ req[r2].op = "delete_image" /\ req[r2].pc = "done" /\ req[r2].status = 200
       /\ req[r1].image_id = req[r2].image_id
       /\ req[r1].user_id = req[r2].user_id
       /\ req[r1].user_id # 0
       /\ Deleted(req[r1].image_id)

\* the insert of a create answers 201 and stores its row with the next_order
\* the request read, whatever the table holds by then
InsertAsRead(r) ==
    (req[r].op = "create_image" /\ req[r].pc = "insert" /\ Stepped(r))
    => (/\ req'[r].pc = "done"
        /\ req'[r].status = 201
        /\ req'[r].body[1].display_order = req[r].next_order
        /\ images' = images \cup {req'[r].body[1]}
        /\ req'[r].body[1].id \notin Ids(images))

\* C17 as stated: whenever two creates of the same user have both read the
\* user's largest display_order and neither has inserted, they hold the same
\* next_order, and each insert answers 201 and stores its row with it.
C17_CreateTieAlways ==
    [][\A r1, r2 \in Reqs :
         /\ InsertAsRead(r1)
         /\ (/\ r1 # r2
             /\ req'[r1].op = "create_image" /\ req'[r1].pc = "insert"
             /\ req'[r2].op = "create_image" /\ req'[r2].pc = "insert"
             /\ req'[r1].user_id = req'[r2].user_id)
            => req'[r1].next_order = req'[r2].next_order]_vars

\* C17 amended: when two creates of the same user have read the same largest
\* display_order (no other request changed the user's rows between the two
\* reads) and neither has inserted, the insert of the first answers 201 with
\* that order and leaves the second with the next_order it read; the insert of
\* the second, run while the row of the first is in the table with that very
\* display_order, answers 201 too and the table then holds the two rows with
\* the same display_order.
C17_CreateTie ==
    [][\A r1, r2 \in Reqs :
         /\ InsertAsRead(r1)
         /\ (/\ r1 # r2
             /\ req[r1].op = "create_image" /\ req[r1].pc = "insert"
             /\ req[r2].op = "create_image" /\ req[r2].pc = "insert"
             /\ req[r1].user_id = req[r2].user_id
             /\ req[r1].next_order = req[r2].next_order
             /\ Stepped(r1))
            => (/\ req'[r1].status = 201
                /\ req'[r1].body[1].display_order = req[r2].next_order
                /\ req'[r2] = req[r2])
         /\ (/\ r1 # r2
             /\ req[r1].op = "create_image" /\ req[r1].pc = "insert"
             /\ req[r2].op = "create_image" /\ req[r2].pc = "done"
             /\ req[r2].status = 201
             /\ req[r2].body[1] \in images
             /\ req[r1].user_id = req[r2].user_id
             /\ req[r1].next_order = req[r2].body[1].display_order
             /\ Stepped(r1))
            => (/\ req'[r1].status = 201
                /\ \E a, b \in images' :
                      /\ a.id # b.id
                      /\ a = req'[r1].body[1]
                      /\ b = req[r2].body[1]
                      /\ a.user_id = b.user_id
                      /\ a.display_order = b.display_order)]_vars

C17_Witness ==
    \E r1, r2 \in Reqs :
       /\ r1 # r2
       /\ req[r1].op = "create_image" /\ req[r1].pc = "done" /\ req[r1].status = 201
       /\ req[r2].op = "create_image" /\ req[r2].pc = "done" /\ req[r2].status = 201
       /\ req[r1].body[1].user_id = req[r2].body[1].user_id
       /\ req[r1].body[1].id # req[r2].body[1].id
       /\ req[r1].body[1].display_order = req[r2].body[1].display_order
       /\ {req[r1].body[1], req[r2].body[1]} \subseteq images

\* C18: when requests run one at a time and are issues, creates, deletes and
\* lists only, the display_order values of the images of one user are pairwise
\* distinct and not negative and grow with the order of creation, and a list
\* answers with the user's images in the order they were created.
C18_AppendOrder ==
    /\ \A im \in images : im.display_order >= 0
    /\ \A a, b \in images :
          (a.user_id = b.user_id /\ a.id < b.id) => a.display_order < b.display_order
    /\ \A r \in Reqs :
          (req[r].op = "get_images" /\ req[r].pc = "done" /\ req[r].status = 200)
          => \A i, j \in 1..Len(req[r].body) :
                i < j => /\ req[r].body[i].id < req[r].body[j].id
                         /\ req[r].body[i].created_at <= req[r].body[j].created_at

C18_Witness ==
    \E r \in Reqs :
       /\ req[r].op = "get_images"
       /\ req[r].pc = "done"
       /\ req[r].status = 200
       /\ Len(req[r].body) = 2
       /\ req[r].body[1].display_order = 1
       /\ req[r].body[2].display_order = 2
       /\ \E i \in 1..(imageSeq - 1) : Deleted(i) /\ i < req[r].body[1].id
       /\ Cardinality(users) = 2
====
